---- MODULE Spec2Model ----
(***************************************************************************)
(* Model of the SpineAI front end (Frontend/script.js): file intake,       *)
(* the asynchronous analyzeImage handler with its two awaits, and the      *)
(* rendering of the analysis report into the page.                         *)
(*                                                                         *)
(* Numbers: a disc confidence c in [0,1] is held as the integer 100*c; a   *)
(* donut percentage is held as the exact fraction <<numerator,             *)
(* denominator>> in lowest terms.  Texts that the code builds by           *)
(* concatenation are sequences of their parts.                             *)
(***************************************************************************)
EXTENDS Integers, Sequences, FiniteSets, TLC

(* ------------------------------ bounds -------------------------------- *)
\* number of calls of analyzeImage in one behaviour
MaxInvocations == 2
\* number of span[id$="-class"] display slots of the page
NumSlots == 2
\* largest count in a summary
MaxCount == 1

(* ------------------------------ inputs -------------------------------- *)
\* the JavaScript value undefined, where a text is expected
Absent == "undefined"
NoFile == "<none>"

ImageFiles == {"scan.png"}
OtherFiles == {"notes.txt"}
Files == ImageFiles \cup OtherFiles
\* file.type.startsWith('image/')
IsImage(f) == f \in ImageFiles

Pages == {"home", "results"}

HttpStatuses == {200, 500}
\* response.ok
Ok(status) == status >= 200 /\ status <= 299

Labels == <<"Normal", "Bulging", "Herniation", "Not_Detected">>
LabelSet == {Labels[k] : k \in 1..Len(Labels)}

\* the disc findings the service may report (confidence in hundredths)
DiscKinds ==
  << [condition |-> "Herniation", severity |-> "severe",   confidence |-> 80],
     [condition |-> "Bulging",    severity |-> "moderate", confidence |-> 60],
     [condition |-> "Normal",     severity |-> "low",      confidence |-> 96],
     [condition |-> "Normal",     severity |-> "none",     confidence |-> 56],
     [condition |-> "Bulging",    severity |-> Absent,     confidence |-> 71] >>

\* len consecutive findings of the cyclic list DiscKinds, from start
Window(start, len) ==
  [k \in 1..len |-> DiscKinds[((start + k - 2) % Len(DiscKinds)) + 1]]

\* reports carry no disc, one disc fewer than the page has slots, as many,
\* or one more
DiscLengths == {0} \cup ((NumSlots - 1)..(NumSlots + 1))
\* the windows start at findings 1, 2 and 4: every finding occurs in them
DiscSeqs == {Window(s, l) : s \in {1, 2, 4}, l \in DiscLengths}

\* key orders in which the service may list a summary (JSON object order)
KeyOrders ==
  { <<>>,
    <<"Normal", "Bulging">>,
    <<"Bulging", "Normal">>,
    <<"Herniation">>,
    <<"Not_Detected">> }

\* a summary is the sequence of its <<key, count>> entries, in key order
Summaries ==
  UNION { { [k \in 1..Len(o) |-> <<o[k], c[k]>>] :
              c \in [1..Len(o) -> 0..MaxCount] } : o \in KeyOrders }

\* the summary of the spec's donut scenario
ScenarioSummary == << <<"Normal", 3>>, <<"Bulging", 1>>, <<"Herniation", 0>> >>

Statuses == {"Critical", "Attention Required", "Normal", Absent}
RiskLevels == {Absent, "", "Moderate Risk"}

BaseReport ==
  [ hasReport |-> TRUE, hasDiscs |-> TRUE, hasSummary |-> TRUE,
    annotated_image |-> "/outputs/scan_output.jpg",
    discs |-> Window(1, NumSlots),
    summary |-> << <<"Normal", 1>> >>,
    overall_status |-> "Normal",
    risk_level |-> Absent ]

\* the payloads a 2xx response may carry: each varies one part of the report
Reports ==
       { [BaseReport EXCEPT !.overall_status = s, !.risk_level = r] :
           s \in Statuses, r \in RiskLevels }
  \cup { [BaseReport EXCEPT !.discs = ds] : ds \in DiscSeqs }
  \cup { [BaseReport EXCEPT !.summary = sm] :
           sm \in Summaries \cup {ScenarioSummary} }
  \cup { [BaseReport EXCEPT !.hasSummary = FALSE, !.summary = <<>>],
         [BaseReport EXCEPT !.hasDiscs = FALSE, !.discs = <<>>],
         [BaseReport EXCEPT !.hasReport = FALSE, !.hasDiscs = FALSE,
                            !.discs = <<>>] }

\* the bodies a non-2xx response may carry
ErrBodies ==
  { [shape |-> "unparseable", detail |-> Absent],
    [shape |-> "null",        detail |-> Absent],
    [shape |-> "object",      detail |-> Absent],
    [shape |-> "object",      detail |-> ""],
    [shape |-> "object",      detail |-> "model unavailable"] }

NoData == [hasReport |-> FALSE, none |-> TRUE]
NoErr == [shape |-> "none", detail |-> Absent]


(* ------------------------------- state -------------------------------- *)
VARIABLES
  fileInput,   \* #file-input: files[0], or NoFile
  readers,     \* files whose FileReader has not fired onload yet
  preview,     \* #preview-section: [src, hidden] (dropzone, formats mirror hidden)
  page,        \* the active page, restored from sessionStorage at load
  busy,        \* [progressHidden, actionsHidden]: #progress-section, #action-buttons
  inv,         \* the calls of analyzeImage, in call order: [pc, file, status]
  display,     \* the result fields of the page
  data,        \* const data of the handler run that just ended, else NoData
  err,         \* const err of the handler run that just ended, else NoErr
  alerted,     \* the texts of the alerts that run raised, in order
  ran          \* the call whose run parsed data, 0 with NoData

vars ==
  <<fileInput, readers, preview, page, busy, inv, display, data, err, alerted, ran>>

Invocations == 1..MaxInvocations

(* --------------------------- pure helpers ----------------------------- *)
RECURSIVE SumConfidence(_)
\* discs.reduce((acc, obj) => acc + obj.confidence, 0)
SumConfidence(discs) ==
  IF discs = <<>> THEN 0
  ELSE discs[1].confidence + SumConfidence(Tail(discs))

\* toFixed(1) that cuts the digits off instead of rounding
ToFixed1Truncating(num, den) ==
  IF den = 0 THEN <<"NaN">>
  ELSE LET t == (10 * num) \div den
       IN  <<ToString(t \div 10), ".", ToString(t % 10)>>

\* (num/den).toFixed(1) for num/den >= 0: nearest tenth, a tie goes up; NaN for 0/0
ToFixed1(num, den) ==
  IF den = 0 THEN <<"NaN">>
  ELSE LET t == (20 * num + den) \div (2 * den)
       IN  <<ToString(t \div 10), ".", ToString(t % 10)>>

\* confidencePercent: sum / discs.length * 100, with sum in hundredths
ConfidencePercent(discs) == ToFixed1(SumConfidence(discs), Len(discs))

\* the position of a label among the summary's keys, 0 when it is missing
KeyIndex(counts, label) ==
  IF \E k \in 1..Len(counts) : counts[k][1] = label
  THEN (CHOOSE k \in 1..Len(counts) : counts[k][1] = label)
  ELSE 0

\* counts.<label> ?? 0
CountOf(counts, label) ==
  LET k == KeyIndex(counts, label)
  IN  IF k = 0 THEN 0 ELSE counts[k][2]

\* textContent = v: undefined is written as the empty text
TextOf(v) == IF v = Absent THEN "" ELSE v

\* the badge text taken from the table whatever the payload says
RiskTextTableOnly(risk_level, fallback) == fallback

\* data.risk_level || fallback
RiskText(risk_level, fallback) ==
  IF risk_level = Absent \/ risk_level = "" THEN fallback ELSE risk_level

\* dot.className = "w-4 h-4 rounded-full": the colour classes are dropped
ResetDot(dot) == {}

\* the notes left as the previous render set them
HideNotesSkipped(notes) == notes

\* the notes after the three classList.add("hidden") calls
HideNotes(notes) == [herniation |-> TRUE, bulging |-> TRUE, normal |-> TRUE]

\* the coloured dot, the risk badge and the notes (the if / else if / else)
ApplyStatus(d, condition, risk_level) ==
  LET dot0 == ResetDot(d.dot)
      notes0 == HideNotes(d.notes)
  IN  IF condition = "Critical" THEN
        [d EXCEPT !.conditionText = TextOf(condition),
                  !.dot = dot0 \cup {"bg-red-500"},
                  !.riskBadgeText = RiskText(risk_level, "High Risk"),
                  !.riskBadgeClass = "bg-red-100 text-red-700",
                  !.notes = [notes0 EXCEPT !.herniation = FALSE]]
      ELSE IF condition = "Attention Required" THEN
        [d EXCEPT !.conditionText = TextOf(condition),
                  !.dot = dot0 \cup {"bg-amber-500"},
                  !.riskBadgeText = RiskText(risk_level, "Low Risk"),
                  !.riskBadgeClass = "bg-amber-100 text-amber-700",
                  !.notes = [notes0 EXCEPT !.bulging = FALSE]]
      ELSE
        [d EXCEPT !.conditionText = TextOf(condition),
                  !.dot = dot0 \cup {"bg-emerald-500"},
                  !.riskBadgeText = RiskText(risk_level, "Normal"),
                  !.riskBadgeClass = "bg-emerald-100 text-emerald-700",
                  !.notes = [notes0 EXCEPT !.normal = FALSE]]

\* the severity mapping without its "low" branch
SeverityClassNoLow(severity) ==
  IF severity = "severe" THEN "font-bold text-red-500 text-lg"
  ELSE IF severity = "moderate" THEN "font-bold text-amber-500 text-lg"
  ELSE "font-bold text-blue-500 text-lg"

\* span.className for a disc's severity
SeverityClass(severity) ==
  IF severity = "severe" THEN "font-bold text-red-500 text-lg"
  ELSE IF severity = "moderate" THEN "font-bold text-amber-500 text-lg"
  ELSE IF severity = "low" THEN "font-bold text-emerald-500 text-lg"
  ELSE "font-bold text-blue-500 text-lg"

\* the slots the forEach over the spans writes before it ends or throws
SlotsWritten(discs) == IF Len(discs) < NumSlots THEN Len(discs) ELSE NumSlots

\* resultSpans.forEach((span, index) => ...), up to the first missing disc
FillSpans(spans, discs) ==
  [i \in 1..NumSlots |->
     IF i <= SlotsWritten(discs)
     THEN [textContent |-> TextOf(discs[i].condition),
           className |-> SeverityClass(discs[i].severity)]
     ELSE spans[i]]

\* discs[index] is undefined for a slot: reading .condition throws
SpansThrow(discs) == Len(discs) < NumSlots

Colors(key) ==
  CASE key = "Normal" -> "#10B981"
    [] key = "Bulging" -> "#F59E0B"
    [] key = "Herniation" -> "#EF4444"
    [] key = "Not_Detected" -> "#3B82F6"
    [] OTHER -> Absent

RECURSIVE Total(_)
\* Object.values(counts).reduce((sum, val) => sum + val, 0)
Total(counts) ==
  IF counts = <<>> THEN 0 ELSE counts[1][2] + Total(Tail(counts))

RECURSIVE GCD(_, _)
GCD(a, b) == IF b = 0 THEN a ELSE GCD(b, a % b)

\* the results of a division by zero: 0/0 and x/0 for x > 0
NaN == <<0, 0>>
Infinity == <<1, 0>>

\* the number num/den (num >= 0, den >= 0), as the fraction in lowest terms
Number(num, den) ==
  IF den = 0 THEN (IF num = 0 THEN NaN ELSE Infinity)
  ELSE <<num \div GCD(num, den), den \div GCD(num, den)>>

\* cumulative, the sum of the percentages of `drawn` counts out of total
Cumulative(drawn, total) ==
  IF drawn = 0 THEN <<0, 1>> ELSE Number(100 * drawn, total)

\* (value / total) * 100
Percentage(value, total) == Number(100 * value, total)

RECURSIVE DrawDonutNoAdvance(_, _, _, _)
\* the donut loop without cumulative += percentage
DrawDonutNoAdvance(st, counts, total, cumulative) ==
  IF counts = <<>> THEN st
  ELSE LET key == counts[1][1]
           value == counts[1][2]
           percentage == Number(100 * value, total)
       IN  IF value = 0 THEN DrawDonutNoAdvance(st, Tail(counts), total, cumulative)
           ELSE DrawDonutNoAdvance(
                  [pct |-> [st.pct EXCEPT ![key] = percentage],
                   donut |-> Append(st.donut,
                               [label |-> key, stroke |-> Colors(key),
                                percentage |-> percentage,
                                offset |-> Number(100 * cumulative, total)])],
                  Tail(counts), total, cumulative)

RECURSIVE DrawDonutNoSkip(_, _, _, _)
\* the donut loop without `if (value === 0) return`
DrawDonutNoSkip(st, counts, total, cumulative) ==
  IF counts = <<>> THEN st
  ELSE LET key == counts[1][1]
           value == counts[1][2]
           percentage == Percentage(value, total)
       IN  DrawDonutNoSkip(
             [pct |-> [st.pct EXCEPT ![key] = percentage],
              donut |-> Append(st.donut,
                          [label |-> key, stroke |-> Colors(key),
                           percentage |-> percentage,
                           offset |-> Cumulative(cumulative, total)])],
             Tail(counts), total, cumulative + value)

RECURSIVE DrawDonutLabelOrder(_, _, _, _)
\* the donut loop over the labels in the order of Labels, whatever the order
\* in which the summary lists its keys
DrawDonutLabelOrder(st, counts, total, cumulative) ==
  LET present == SelectSeq(Labels, LAMBDA l : KeyIndex(counts, l) # 0)
      sorted == [k \in 1..Len(present) |->
                   <<present[k], CountOf(counts, present[k])>>]
  IN  IF sorted = <<>> THEN st
      ELSE LET key == sorted[1][1]
               value == sorted[1][2]
               percentage == Percentage(value, total)
           IN  IF value = 0
               THEN DrawDonutLabelOrder(st, Tail(sorted), total, cumulative)
               ELSE DrawDonutLabelOrder(
                      [pct |-> [st.pct EXCEPT ![key] = percentage],
                       donut |-> Append(st.donut,
                                   [label |-> key, stroke |-> Colors(key),
                                    percentage |-> percentage,
                                    offset |-> Cumulative(cumulative, total)])],
                      Tail(sorted), total, cumulative + value)

RECURSIVE DrawDonut(_, _, _, _)
\* Object.entries(counts).forEach(...): st = [pct, donut]; cumulative is held
\* as the sum of the counts drawn so far, that is cumulative * total / 100
DrawDonut(st, counts, total, cumulative) ==
  IF counts = <<>> THEN st
  ELSE LET key == counts[1][1]
           value == counts[1][2]
           percentage == Percentage(value, total)
       IN  IF value = 0 THEN DrawDonut(st, Tail(counts), total, cumulative)
           ELSE DrawDonut(
                  [pct |-> [st.pct EXCEPT ![key] = percentage],
                   donut |-> Append(st.donut,
                               [label |-> key, stroke |-> Colors(key),
                                percentage |-> percentage,
                                offset |-> Cumulative(cumulative, total)])],
                  Tail(counts), total, cumulative + value)

\* the svg's circles before this render appends its own
DonutBefore(donut) == donut


\* const counts = data.report.summary || {}
CountsOf(payload) == IF payload.hasSummary THEN payload.summary ELSE <<>>

\* the four count fields
ShowCounts(d, counts) ==
  [d EXCEPT !.normalCount = ToString(CountOf(counts, "Normal")),
            !.bulgingCount = ToString(CountOf(counts, "Bulging")),
            !.herniationCount = ToString(CountOf(counts, "Herniation")),
            !.notDetectedCount = ToString(CountOf(counts, "Not_Detected"))]

\* the confidence text and the bar width
ShowConfidence(d, discs) ==
  [d EXCEPT !.confidenceText = ConfidencePercent(discs) \o <<"%">>,
            !.confidenceBarWidth = ConfidencePercent(discs) \o <<"%">>]

\* the output image replaces the placeholder
ShowImage(d, payload) ==
  [d EXCEPT !.resultImageSrc = payload.annotated_image,
            !.resultImageHidden = FALSE,
            !.placeholderHidden = TRUE]

NoThrow == <<>>

\* the body of the try block after showPage("results"), up to its end or to
\* the statement that throws: [display, thrown]
Render(d, payload) ==
  LET d1 == ShowImage(d, payload)
      discs == payload.discs
      counts == CountsOf(payload)
      d2 == ShowConfidence(d1, discs)
      d3 == ShowCounts(d2, counts)
      d4 == ApplyStatus(d3, payload.overall_status, payload.risk_level)
      d5 == [d4 EXCEPT !.spans = FillSpans(d4.spans, discs)]
      st == DrawDonut([pct |-> d5.pct, donut |-> DonutBefore(d5.donut)],
                      counts, Total(counts), 0)
      d6 == [d5 EXCEPT !.pct = st.pct, !.donut = st.donut]
  IN  IF ~payload.hasReport THEN
        [display |-> d1,
         thrown |-> <<"Cannot read properties of undefined (reading 'discs')">>]
      ELSE IF ~payload.hasDiscs THEN
        [display |-> d1,
         thrown |-> <<"Cannot read properties of undefined (reading 'reduce')">>]
      ELSE IF SpansThrow(discs) THEN
        [display |-> d5,
         thrown |-> <<"Cannot read properties of undefined (reading 'condition')">>]
      ELSE [display |-> d6, thrown |-> NoThrow]

\* const err = await response.json().catch(() => ({}))
ParsedErr(body) ==
  IF body.shape = "unparseable" THEN [shape |-> "object", detail |-> Absent]
  ELSE body

\* the message built from the status code alone
ErrorMessageStatusOnly(e, status) == <<"Server error ", ToString(status)>>

\* the message of the error thrown for a non-2xx response:
\* new Error(err.detail || `Server error ${response.status}`)
ErrorMessage(e, status) ==
  IF e.shape = "null"
  THEN <<"Cannot read properties of null (reading 'detail')">>
  ELSE IF e.detail = Absent \/ e.detail = ""
       THEN <<"Server error ", ToString(status)>>
       ELSE <<e.detail>>

\* showPage(pageName): the named page becomes the active one
showPage(current, pageName) == pageName

\* alert(text)
Alert(a, text) == Append(a, text)

\* catch (error): alert("Detection failed: " + error.message)
Catch(a, message) == Alert(a, <<"Detection failed: ">> \o message)

\* progress section shown, action buttons hidden
SetBusy(b) == [progressHidden |-> FALSE, actionsHidden |-> TRUE]

\* a cleanup that restores nothing
FinallySkipped(b) == b

\* finally: progress section hidden, action buttons shown
Finally(b) == [progressHidden |-> TRUE, actionsHidden |-> FALSE]

(* ------------------------------- Init --------------------------------- *)
\* the result fields before any analysis: no image, no text, no note, no circle
InitDisplay ==
  [ resultImageSrc |-> "", resultImageHidden |-> TRUE, placeholderHidden |-> FALSE,
    confidenceText |-> <<>>, confidenceBarWidth |-> <<>>,
    normalCount |-> "", bulgingCount |-> "", herniationCount |-> "",
    notDetectedCount |-> "",
    conditionText |-> "", dot |-> {},
    riskBadgeText |-> "", riskBadgeClass |-> "",
    notes |-> [herniation |-> TRUE, bulging |-> TRUE, normal |-> TRUE],
    spans |-> [i \in 1..NumSlots |-> [textContent |-> "", className |-> ""]],
    pct |-> [l \in LabelSet |-> <<>>],
    donut |-> <<>> ]

Init ==
  /\ fileInput = NoFile
  /\ readers = {}
  /\ preview = [src |-> "", hidden |-> TRUE]
  /\ page \in Pages
  /\ busy = [progressHidden |-> TRUE, actionsHidden |-> FALSE]
  /\ inv = [i \in Invocations |-> [pc |-> "idle", file |-> NoFile, status |-> 0]]
  /\ data = NoData
  /\ err = NoErr
  /\ display = InitDisplay
  /\ alerted = <<>>
  /\ ran = 0

(* ------------------------------ actions ------------------------------- *)
\* a handler that parses no body and raises no alert
Quiet == data' = NoData /\ err' = NoErr /\ alerted' = <<>> /\ ran' = 0

\* a call that has returned: its locals are gone
Returned == [pc |-> "done", file |-> NoFile, status |-> 0]

\* fileInput 'change': the picked file is held by the input and previewed
\* (the picker is taken to offer the image files)
Change(f) ==
  /\ fileInput' = f
  /\ readers' = readers \cup {f}
  /\ Quiet
  /\ UNCHANGED <<preview, page, busy, inv, display>>

\* dropzone 'drop': an image is previewed, anything else is ignored
Drop(f) ==
  /\ readers' = IF IsImage(f) THEN readers \cup {f} ELSE readers
  /\ Quiet
  /\ UNCHANGED <<fileInput, preview, page, busy, inv, display>>

\* handleFile's reader.onload
ReaderOnload(f) ==
  /\ f \in readers
  /\ readers' = readers \ {f}
  /\ preview' = [src |-> f, hidden |-> FALSE]
  /\ Quiet
  /\ UNCHANGED <<fileInput, page, busy, inv, display>>

removeFile ==
  /\ fileInput' = NoFile
  /\ preview' = [src |-> "", hidden |-> TRUE]
  /\ Quiet
  /\ UNCHANGED <<readers, page, busy, inv, display>>


\* the next call, refused while an earlier call has not returned
IsNextCallWhenIdle(i) ==
  /\ inv[i].pc = "idle"
  /\ \A j \in Invocations : j < i => inv[j].pc = "done"

\* the call is the next one in call order
IsNextCall(i) ==
  /\ inv[i].pc = "idle"
  /\ \A j \in Invocations : j < i => inv[j].pc # "idle"

\* analyzeImage without the test of lines 95-100: the request is issued with
\* whatever the file input holds
analyzeImageNoCheck(i) ==
  /\ IsNextCall(i)
  /\ busy' = SetBusy(busy)
  /\ inv' = [inv EXCEPT ![i] = [pc |-> "fetch", file |-> fileInput,
                                status |-> 0]]
  /\ alerted' = <<>>
  /\ data' = NoData /\ err' = NoErr /\ ran' = 0
  /\ UNCHANGED <<fileInput, readers, preview, page, display>>

\* analyzeImage up to its first await (or to its early return).  The function
\* tests only that a file is selected: it can be entered while an earlier
\* call is still waiting.
analyzeImage(i) ==
  /\ IsNextCall(i)
  /\ IF fileInput = NoFile
     THEN /\ alerted' = Alert(<<>>, <<"Please upload an image first.">>)
          /\ inv' = [inv EXCEPT ![i] = Returned]
          /\ UNCHANGED busy
     ELSE /\ busy' = SetBusy(busy)
          /\ inv' = [inv EXCEPT ![i] = [pc |-> "fetch", file |-> fileInput,
                                        status |-> 0]]
          /\ alerted' = <<>>
  /\ data' = NoData /\ err' = NoErr /\ ran' = 0
  /\ UNCHANGED <<fileInput, readers, preview, page, display>>

\* fetch rejects: catch, finally
FetchRejected(i) ==
  /\ inv[i].pc = "fetch"
  /\ alerted' = Catch(<<>>, <<"Failed to fetch">>)
  /\ busy' = Finally(busy)
  /\ inv' = [inv EXCEPT ![i] = Returned]
  /\ data' = NoData /\ err' = NoErr /\ ran' = 0
  /\ UNCHANGED <<fileInput, readers, preview, page, display>>

\* fetch resolves with a response: its body is read next
FetchResolved(i, status) ==
  /\ inv[i].pc = "fetch"
  /\ inv' = [inv EXCEPT ![i].pc = IF Ok(status) THEN "json" ELSE "errjson",
                        ![i].status = status]
  /\ Quiet
  /\ UNCHANGED <<fileInput, readers, preview, page, busy, display>>

\* a failed request that navigates to the results page all the same
ErrorBodyReadNavigates(i, body) ==
  /\ inv[i].pc = "errjson"
  /\ err' = ParsedErr(body)
  /\ alerted' = Catch(<<>>, ErrorMessage(ParsedErr(body), inv[i].status))
  /\ busy' = Finally(busy)
  /\ inv' = [inv EXCEPT ![i] = Returned]
  /\ data' = NoData /\ ran' = 0
  /\ page' = showPage(page, "results")
  /\ UNCHANGED <<fileInput, readers, preview, display>>

\* the body of a non-2xx response is read: throw, catch, finally
ErrorBodyRead(i, body) ==
  /\ inv[i].pc = "errjson"
  /\ err' = ParsedErr(body)
  /\ alerted' = Catch(<<>>, ErrorMessage(ParsedErr(body), inv[i].status))
  /\ busy' = Finally(busy)
  /\ inv' = [inv EXCEPT ![i] = Returned]
  /\ data' = NoData /\ ran' = 0
  /\ UNCHANGED <<fileInput, readers, preview, page, display>>

\* the body of a 2xx response is not JSON: catch, finally
BodyRejected(i) ==
  /\ inv[i].pc = "json"
  /\ alerted' = Catch(<<>>, <<"Unexpected token in JSON">>)
  /\ busy' = Finally(busy)
  /\ inv' = [inv EXCEPT ![i] = Returned]
  /\ data' = NoData /\ err' = NoErr /\ ran' = 0
  /\ UNCHANGED <<fileInput, readers, preview, page, display>>

\* the body of a 2xx response is parsed and rendered: try, catch, finally
BodyParsed(i, payload) ==
  /\ inv[i].pc = "json"
  /\ data' = payload
  /\ page' = showPage(page, "results")
  /\ LET r == Render(display, payload)
     IN  /\ display' = r.display
         /\ alerted' = IF r.thrown = NoThrow THEN <<>>
                       ELSE Catch(<<>>, r.thrown)
  /\ busy' = Finally(busy)
  /\ inv' = [inv EXCEPT ![i] = Returned]
  /\ err' = NoErr /\ ran' = i
  /\ UNCHANGED <<fileInput, readers, preview>>

Next ==
  \/ \E f \in ImageFiles : Change(f)
  \/ \E f \in Files : Drop(f)
  \/ \E f \in Files : ReaderOnload(f)
  \/ removeFile
  \/ \E i \in Invocations : analyzeImage(i)
  \/ \E i \in Invocations : FetchRejected(i)
  \/ \E i \in Invocations, status \in HttpStatuses : FetchResolved(i, status)
  \/ \E i \in Invocations, body \in ErrBodies : ErrorBodyRead(i, body)
  \/ \E i \in Invocations : BodyRejected(i)
  \/ \E i \in Invocations, payload \in Reports : BodyParsed(i, payload)

Spec == Init /\ [][Next]_vars

(* ------------------------ properties of the code ---------------------- *)
\* call i issues its request in this step
Issues(i) == inv[i].pc = "idle" /\ inv'[i].pc = "fetch"

\* call i, which had issued a request, returns in this step
Exits(i) == inv[i].pc \in {"fetch", "errjson", "json"} /\ inv'[i].pc = "done"

BusySet(b) == ~b.progressHidden /\ b.actionsHidden
BusyCleared(b) == b.progressHidden /\ ~b.actionsHidden

\* the handler run that just ended rendered a payload up to the status step
ReachedStatus == data.hasReport /\ data.hasDiscs

\* ... and up to the end of the try block
Completed == ReachedStatus /\ alerted = <<>>

\* C1: a call that finds a file has the busy state set when its request is
\* issued, and whichever way the call returns (render, non-2xx status, fetch
\* rejection, exception while rendering) the busy state is cleared.
C1_BusyScoped ==
  [][\A i \in Invocations :
       /\ Issues(i) => BusySet(busy')
       /\ Exits(i) => BusyCleared(busy')]_vars

\* a call returned through the catch block after a throw in the span loop
C1_Witness ==
  /\ \E i \in Invocations : inv[i].pc = "done"
  /\ ReachedStatus /\ alerted # <<>>
  /\ BusyCleared(busy)

\* C2: at most one inference request is in flight in every reachable state.
C2_SingleFlight ==
  Cardinality({i \in Invocations : inv[i].pc = "fetch"}) <= 1

\* the summary entries that have a count above 0
Drawn(summary) == {k \in 1..Len(summary) : summary[k][2] > 0}

DotOf(status) ==
  IF status = "Critical" THEN "bg-red-500"
  ELSE IF status = "Attention Required" THEN "bg-amber-500"
  ELSE "bg-emerald-500"

VisibleNotes(d) == {n \in {"herniation", "bulging", "normal"} : ~d.notes[n]}

NoteOf(status) ==
  IF status = "Critical" THEN "herniation"
  ELSE IF status = "Attention Required" THEN "bulging"
  ELSE "normal"

OneNoteOneColour(d) ==
  Cardinality(VisibleNotes(d)) = 1 /\ Cardinality(d.dot) = 1

\* C3: a render that reaches the status step leaves exactly the note and the
\* dot colour of its own overall status (Critical: red + herniation note,
\* Attention Required: amber + bulging note, anything else: green + normal
\* note), whatever was rendered before; and once one note and one colour
\* show, every later step keeps it at one note and one colour.
C3_StatusTable ==
  /\ [](ReachedStatus =>
          /\ display.dot = {DotOf(data.overall_status)}
          /\ VisibleNotes(display) = {NoteOf(data.overall_status)})
  /\ [][OneNoteOneColour(display) => OneNoteOneColour(display')]_vars

\* a render after an earlier one (whose circles are still in the donut)
C3_Witness ==
  /\ ReachedStatus
  /\ data.overall_status = "Attention Required"
  /\ VisibleNotes(display) = {"bulging"}
  /\ Len(display.donut) > Cardinality(Drawn(CountsOf(data)))

BadgeDefault(status) ==
  IF status = "Critical" THEN "High Risk"
  ELSE IF status = "Attention Required" THEN "Low Risk"
  ELSE "Normal"

BadgeClassOf(status) ==
  IF status = "Critical" THEN "bg-red-100 text-red-700"
  ELSE IF status = "Attention Required" THEN "bg-amber-100 text-amber-700"
  ELSE "bg-emerald-100 text-emerald-700"

\* C4: the badge text is the table default of the overall status when the
\* risk level is absent or empty and the risk level itself otherwise; the
\* badge style follows the overall status alone.
C4_RiskBadge ==
  ReachedStatus =>
    /\ data.risk_level \in {Absent, ""} =>
         display.riskBadgeText = BadgeDefault(data.overall_status)
    /\ data.risk_level \notin {Absent, ""} =>
         display.riskBadgeText = data.risk_level
    /\ display.riskBadgeClass = BadgeClassOf(data.overall_status)

C4_Witness ==
  /\ ReachedStatus
  /\ data.overall_status = "Critical"
  /\ data.risk_level = "Moderate Risk"
  /\ display.riskBadgeText = "Moderate Risk"
  /\ display.riskBadgeClass = "bg-red-100 text-red-700"

RECURSIVE SumCounts(_)
SumCounts(summary) ==
  IF summary = <<>> THEN 0 ELSE summary[1][2] + SumCounts(Tail(summary))

\* fraction f equals 100 * count / total
IsShare(f, count, total) == f[1] * total = 100 * count * f[2]

\* C5: after a render of a report with summary S the donut holds exactly one
\* segment per label of S with count > 0, with percentage 100*count/total,
\* and no other segment; on every render of a sequence of analyses.
C5_DonutIsSummary ==
  Completed =>
    LET S == CountsOf(data)
    IN  /\ Len(display.donut) = Cardinality(Drawn(S))
        /\ \A k \in Drawn(S) :
             \E n \in 1..Len(display.donut) :
               /\ display.donut[n].stroke = Colors(S[k][1])
               /\ IsShare(display.donut[n].percentage, S[k][2], SumCounts(S))

\* a / b + c / d, and a / b <= c / d, for fractions with positive denominators
FracAdd(f, g) == <<f[1] * g[2] + g[1] * f[2], f[2] * g[2]>>
FracEq(f, g) == f[1] * g[2] = g[1] * f[2]
FracLess(f, g) == f[1] * g[2] < g[1] * f[2]

RECURSIVE SumShares(_)
\* the sum of the percentages of a sequence of segments
SumShares(segs) ==
  IF segs = <<>> THEN <<0, 1>>
  ELSE FracAdd(segs[1].percentage, SumShares(Tail(segs)))

\* the circles that this step appended to the donut
Emitted == SubSeq(display'.donut, Len(display.donut) + 1, Len(display'.donut))

\* this step is a render that ran to the end of the donut loop
RendersDonut ==
  /\ \E i \in Invocations : Exits(i)
  /\ data'.hasReport /\ data'.hasDiscs /\ alerted' = <<>>

\* C6: for a summary with total > 0 the percentages of the segments that one
\* render emits sum to 100, every segment's offset is the sum of the
\* percentages of the segments emitted before it, so the offsets grow
\* strictly and no two arcs overlap.
C6_DonutLayout ==
  [][(RendersDonut /\ SumCounts(CountsOf(data')) > 0) =>
       /\ FracEq(SumShares(Emitted), <<100, 1>>)
       /\ \A n \in 1..Len(Emitted) :
            /\ FracEq(Emitted[n].offset, SumShares(SubSeq(Emitted, 1, n - 1)))
            /\ FracLess(<<0, 1>>, Emitted[n].percentage)
            /\ n > 1 =>
                 /\ FracLess(Emitted[n - 1].offset, Emitted[n].offset)
                 /\ FracEq(FracAdd(Emitted[n - 1].offset,
                                   Emitted[n - 1].percentage),
                           Emitted[n].offset)]_vars

\* the scenario of the spec: 75 and 25, the second segment at offset 75
C6_Witness ==
  /\ Completed
  /\ data.summary = ScenarioSummary
  /\ Len(display.donut) >= 2
  /\ LET n == Len(display.donut)
     IN  /\ display.donut[n - 1].percentage = <<75, 1>>
         /\ display.donut[n].percentage = <<25, 1>>
         /\ display.donut[n].offset = <<75, 1>>

\* the text of the alert a failed call shows for a message
FailureAlert(message) == <<"Detection failed: ">> \o message

Contains(text, part) == \E k \in 1..Len(text) : text[k] = part

HasDetail(e) == e.shape = "object" /\ e.detail \notin {Absent, ""}

\* call i returns in this step because fetch rejected
Rejects(i) == inv[i].pc = "fetch" /\ inv'[i].pc = "done"

\* call i returns in this step because the status was not a success
FailsStatus(i) == inv[i].pc = "errjson" /\ inv'[i].pc = "done"

\* C7 as stated: on a transport failure (fetch rejects, or a non-success
\* status) there is exactly one alert, holding the server's detail when the
\* error body has one and otherwise a generic message with the status code;
\* the call does not issue another request, and the busy state is cleared.
C7_TransportAlertAsStated ==
  [][\A i \in Invocations :
       (Rejects(i) \/ FailsStatus(i)) =>
         /\ Len(alerted') = 1
         /\ IF HasDetail(err') THEN Contains(alerted'[1], err'.detail)
            ELSE alerted'[1] =
                   FailureAlert(<<"Server error ", ToString(inv[i].status)>>)
         /\ inv'[i].pc = "done"
         /\ BusyCleared(busy')]_vars

\* C7 amended: on a non-success status there is exactly one alert; it holds
\* the server's detail when the error body is an object with a non-empty
\* detail, the generic message with the status code when the body is an
\* object without one or is not JSON, and the message of the TypeError when
\* the body is the JSON null; when fetch rejects the one alert holds the
\* rejection's message.  The call issues no other request and the busy state
\* is cleared.
C7_TransportAlert ==
  [][\A i \in Invocations :
       /\ FailsStatus(i) =>
            /\ Len(alerted') = 1
            /\ HasDetail(err') => alerted'[1] = FailureAlert(<<err'.detail>>)
            /\ (err'.shape = "object" /\ ~HasDetail(err')) =>
                 alerted'[1] =
                   FailureAlert(<<"Server error ", ToString(inv[i].status)>>)
            /\ err'.shape = "null" =>
                 alerted'[1] = FailureAlert(
                   <<"Cannot read properties of null (reading 'detail')">>)
            /\ err'.shape \in {"object", "null"}
       /\ Rejects(i) => alerted' = <<FailureAlert(<<"Failed to fetch">>)>>
       /\ (Rejects(i) \/ FailsStatus(i)) =>
            /\ inv'[i].pc = "done"
            /\ BusyCleared(busy')]_vars

\* the scenario of the spec: HTTP 500 with detail "model unavailable"
C7_Witness ==
  /\ err = [shape |-> "object", detail |-> "model unavailable"]
  /\ alerted = << <<"Detection failed: ", "model unavailable">> >>
  /\ BusyCleared(busy)
  /\ \E i \in Invocations : inv[i].pc = "done"

StyleOf(severity) ==
  CASE severity = "severe" -> "font-bold text-red-500 text-lg"
    [] severity = "moderate" -> "font-bold text-amber-500 text-lg"
    [] severity = "low" -> "font-bold text-emerald-500 text-lg"
    [] OTHER -> "font-bold text-blue-500 text-lg"

\* C8: with at least as many discs as slots, slot i shows discs[i].condition
\* in the style of discs[i].severity alone (severe red, moderate amber, low
\* green, anything else blue); the discs beyond the last slot are dropped
\* and the render completes without an error.
C8_SlotsFilled ==
  (ReachedStatus /\ Len(data.discs) >= NumSlots) =>
    /\ \A i \in 1..NumSlots :
         /\ display.spans[i].textContent = data.discs[i].condition
         /\ display.spans[i].className = StyleOf(data.discs[i].severity)
    /\ alerted = <<>>
    /\ BusyCleared(busy)

\* more discs than slots, a "low" disc in the last slot
C8_Witness ==
  /\ ReachedStatus
  /\ Len(data.discs) > NumSlots
  /\ data.discs[NumSlots].severity = "low"
  /\ display.spans[NumSlots].className = "font-bold text-emerald-500 text-lg"
  /\ alerted = <<>>

\* the sum of the confidences (hundredths) of discs 1..n
ConfidenceSum(discs) ==
  LET S[n \in 0..Len(discs)] ==
        IF n = 0 THEN 0 ELSE S[n - 1] + discs[n].confidence
  IN  S[Len(discs)]

Abs(x) == IF x < 0 THEN -x ELSE x

\* the numbers of tenths next to 10 * sum / n
Tenths(sum, n) == {(10 * sum) \div n, (10 * sum) \div n + 1}

\* the text of t tenths of a percent
PercentText(t) == <<ToString(t \div 10), ".", ToString(t % 10), "%">>

\* C9: with a non-empty discs sequence the confidence text and the bar width
\* are 100 times the mean confidence, rounded to one decimal place: the
\* shown number of tenths t is a nearest one to 10 * (sum / n).
C9_MeanConfidence ==
  (ReachedStatus /\ data.discs # <<>>) =>
    \E t \in Tenths(ConfidenceSum(data.discs), Len(data.discs)) :
      /\ 2 * Abs(t * Len(data.discs) - 10 * ConfidenceSum(data.discs))
           <= Len(data.discs)
      /\ display.confidenceText = PercentText(t)
      /\ display.confidenceBarWidth = PercentText(t)

\* the scenario of the spec: confidences 0.8 and 0.6 give 70.0
C9_Witness ==
  /\ ReachedStatus
  /\ Len(data.discs) = 2
  /\ data.discs[1].confidence = 80 /\ data.discs[2].confidence = 60
  /\ display.confidenceText = <<"70", ".", "0", "%">>

\* C10: with fewer discs than slots the render completes normally: the
\* first discs.length slots are updated, the donut is drawn, and no error
\* is raised or shown.
C10_FewerDiscsCompletes ==
  (ReachedStatus /\ Len(data.discs) < NumSlots) =>
    /\ \A i \in 1..Len(data.discs) :
         display.spans[i].textContent = data.discs[i].condition
    /\ alerted = <<>>
    /\ Len(display.donut) >= Cardinality(Drawn(CountsOf(data)))
    /\ Len(display.donut) > 0

\* call i has issued its request and has not returned
Waiting(i) == inv[i].pc \in {"fetch", "errjson", "json"}

\* the page shows the payload p: image, confidence, counts, status, badge
Shows(d, p) ==
  /\ d.resultImageSrc = p.annotated_image
  /\ d.confidenceText = ConfidencePercent(p.discs) \o <<"%">>
  /\ d.normalCount = ToString(CountOf(CountsOf(p), "Normal"))
  /\ d.conditionText = TextOf(p.overall_status)
  /\ d.dot = {DotOf(p.overall_status)}
  /\ VisibleNotes(d) = {NoteOf(p.overall_status)}

\* C11: analyzeImage can be entered while an earlier call's request is
\* outstanding (a selected file is all it asks for), and a response is
\* rendered whatever has been rendered since its request was issued: when
\* the response of an earlier call is rendered after a later call has
\* returned, the page shows the earlier call's payload.
C11_NoGuardNoDiscard ==
  /\ \A i \in Invocations :
       ( /\ inv[i].pc = "idle"
         /\ \A j \in Invocations : j < i => inv[j].pc # "idle"
         /\ \E j \in Invocations : j < i /\ Waiting(j)
         /\ fileInput # NoFile )
       => ENABLED (analyzeImage(i) /\ inv'[i].pc = "fetch")
  /\ \A i \in Invocations :
       ( /\ ran = i /\ ReachedStatus
         /\ \E j \in Invocations : j > i /\ inv[j].pc = "done" )
       => Shows(display, data)

\* the earlier call's response was rendered last, after the later call's
\* (whose circle is still in the donut): the page shows the older payload
C11_Witness ==
  /\ ran = 1 /\ Completed
  /\ inv[1].pc = "done" /\ inv[2].pc = "done"
  /\ data.overall_status = "Critical"
  /\ display.conditionText = "Critical"
  /\ Len(display.donut) > Cardinality(Drawn(CountsOf(data)))

\* two summaries hold the same keys with the same counts
SameCounts(S, T) ==
  \A l \in LabelSet :
    /\ (KeyIndex(S, l) = 0) <=> (KeyIndex(T, l) = 0)
    /\ CountOf(S, l) = CountOf(T, l)

\* the circles of the render that just completed: the last ones of the svg
Shown ==
  LET n == Cardinality(Drawn(CountsOf(data)))
  IN  SubSeq(display.donut, Len(display.donut) - n + 1, Len(display.donut))

DividedByZero(f) == f \in {NaN, Infinity}

\* C13 as stated: a render of a summary whose counts sum to 0 divides by
\* zero, so a percentage it writes is not a number.
C13_ZeroTotalDivides ==
  (Completed /\ SumCounts(CountsOf(data)) = 0) =>
    \/ \E l \in LabelSet : DividedByZero(display.pct[l])
    \/ \E n \in 1..Len(display.donut) :
         DividedByZero(display.donut[n].percentage)

\* C13: a render of a summary whose counts sum to 0 (every count 0, or no
\* key, or no summary) skips every entry before the division: it writes no
\* percentage, appends no segment and raises no alert, and no percentage or
\* offset on the page is ever the result of a division by zero.
C13_ZeroTotalSkips ==
  /\ [](/\ \A l \in LabelSet : ~DividedByZero(display.pct[l])
        /\ \A n \in 1..Len(display.donut) :
             /\ ~DividedByZero(display.donut[n].percentage)
             /\ ~DividedByZero(display.donut[n].offset))
  /\ [][(RendersDonut /\ SumCounts(CountsOf(data')) = 0) =>
          /\ Emitted = <<>>
          /\ display'.pct = display.pct
          /\ display'.donut = display.donut]_vars

\* a report whose summary lists a key with count 0 was rendered to the end
C13_Witness ==
  /\ Completed
  /\ data.hasSummary /\ data.summary # <<>>
  /\ SumCounts(data.summary) = 0
  /\ Total(data.summary) = 0
  /\ \A l \in LabelSet : display.pct[l] = <<>>

NoImageAlert == << <<"Please upload an image first.">> >>

\* call i is entered in this step
Enters(i) == inv[i].pc = "idle" /\ inv'[i].pc # "idle"

\* C14: a call entered while the file input holds no file raises the one
\* alert "Please upload an image first." and returns at once: no request is
\* issued, and the busy state, the page and every result field stay as they
\* were.
C14_NoFileReturns ==
  [][\A i \in Invocations :
       (Enters(i) /\ fileInput = NoFile) =>
         /\ alerted' = NoImageAlert
         /\ inv'[i].pc = "done" /\ inv'[i].file = NoFile
         /\ busy' = busy
         /\ page' = page
         /\ display' = display
         /\ UNCHANGED <<fileInput, preview>>]_vars

\* the call after the file of a rendered analysis was removed: the alert is
\* up, the results of the earlier analysis are still shown
C14_Witness ==
  /\ alerted = NoImageAlert
  /\ fileInput = NoFile /\ preview.hidden
  /\ inv[2].pc = "done"
  /\ ~BusySet(busy)
  /\ page = "results" /\ display.resultImageSrc # ""

\* call i learns in this step that the status is not a success
GetsFailure(i) == inv[i].pc = "fetch" /\ inv'[i].pc = "errjson"

\* C15: no step of a call that ends because fetch rejected or because the
\* status was not a success (issuing the request, receiving the status,
\* returning) changes the page or a result field (image, confidence, counts,
\* condition, dot, badge, notes, slots, percentages, donut); the call
\* changes only the busy state and, when it returns, the alert.
C15_FailureFrame ==
  [][\A i \in Invocations :
       /\ (Issues(i) \/ GetsFailure(i) \/ Rejects(i) \/ FailsStatus(i)) =>
            /\ page' = page
            /\ display' = display
            /\ UNCHANGED <<fileInput, preview, readers>>
            /\ \A j \in Invocations : j # i => inv'[j] = inv[j]
       /\ (Rejects(i) \/ FailsStatus(i)) =>
            /\ Len(alerted') = 1
            /\ BusyCleared(busy')]_vars

\* a request failed with a non-success status on the home page: the page is
\* still home and no result field was written
C15_Witness ==
  /\ err # NoErr
  /\ Len(alerted) = 1 /\ alerted # NoImageAlert
  /\ \E i \in Invocations : inv[i].pc = "done" /\ inv[i].status = 0
  /\ page = "home" /\ display = InitDisplay

\* C16 as stated: whenever the preview section is visible the file input
\* holds the previewed file, so that the next call of analyzeImage issues a
\* request for it instead of reporting that no image was uploaded.
C16_PreviewHasFile ==
  ~preview.hidden =>
    /\ fileInput = preview.src
    /\ \A i \in Invocations :
         (inv[i].pc = "idle" /\ \A j \in Invocations : j < i => inv[j].pc # "idle")
           => ENABLED (analyzeImage(i) /\ inv'[i].pc = "fetch"
                       /\ inv'[i].file = preview.src)

====
